---- MODULE Spec2Model ----
(***************************************************************************)
(* A model of tensorcat: format_img (layout and range normalisation),      *)
(* get_grid_size and tile_img (batch tiling) from tensorcat/tensorcat.py,  *)
(* and img2str (the iTerm2 inline image protocol) from tensorcat/iterm2.py.*)
(*                                                                         *)
(* An array is a record [shape, data]: shape is the tuple of axis sizes,   *)
(* data maps every 0-based index tuple to the element.  Elements of an     *)
(* input array are fixed-point numbers counted in quarters (the value 0.25 *)
(* is 1, the value 300 is 1200), all exactly representable in binary64, so *)
(* that fractional inputs and truncation are part of the model.  Elements  *)
(* of a uint8 array are plain integers 0..255.                             *)
(***************************************************************************)
EXTENDS Integers, Sequences, FiniteSets, TLC

VARIABLES
    \* format_img
    pc,            \* position inside format_img: shape, range, rgb, done, raised
    arg,           \* the array format_img was called with
    x,             \* the local x of format_img
    format_guess,  \* tensorcat.py:44
    range_guess,   \* tensorcat.py:45
    xmin, xmax,    \* x.min() and x.max() as the range step saw them (quarters)
    divzero,       \* the rescale of line 79 divided by zero
    alpha,         \* the alpha-drop of line 87 was executed
    calls,         \* 1 for format_img(a), 2 for format_img(format_img(a))
    first,         \* the array the first call returned
    \* get_grid_size
    gpc,           \* call, done
    gargs,         \* the arguments [b, h, w, nrow, ncol]
    gret,          \* the returned (nrow, ncol)
    \* tile_img
    tpc,           \* start, loop, done
    tx,            \* the argument x, a [b, h, w, c] uint8 array
    tnrow, tncol,  \* nrow and ncol: the arguments, then the grid chosen
    padding, pad_value,
    th, tw,        \* the locals h and w (the cell sizes after line 115)
    grid,          \* the canvas
    tk, trow, tcol, \* the loop variables k, row and col
    \* img2str
    TERM,          \* the environment variable, Unset or a string
    eargs,         \* the arguments the calls of img2str are made with
    eret,          \* the string the last call returned, until it is printed
    prevmux        \* the framing of the call before: "", tmux or plain

fvars == <<pc, arg, x, format_guess, range_guess, xmin, xmax, divzero, alpha,
           calls, first>>
gvars == <<gpc, gargs, gret>>
tvars == <<tpc, tx, tnrow, tncol, padding, pad_value, th, tw, grid, tk, trow, tcol>>
evars == <<TERM, eargs, eret, prevmux>>

vars == <<fvars, gvars, tvars, evars>>

\* the variables of an operation the specification at hand does not run
FormatIdle ==
    /\ pc = "idle" /\ arg = <<>> /\ x = <<>> /\ format_guess = "" /\ range_guess = ""
    /\ xmin = 0 /\ xmax = 0 /\ divzero = FALSE /\ alpha = FALSE /\ calls = 0
    /\ first = <<>>
GridIdle == gpc = "idle" /\ gargs = <<>> /\ gret = <<>>
TileIdle ==
    /\ tpc = "idle" /\ tx = <<>> /\ tnrow = 0 /\ tncol = 0 /\ padding = 0
    /\ pad_value = 0 /\ th = 0 /\ tw = 0 /\ grid = <<>> /\ tk = 0 /\ trow = 0
    /\ tcol = 0
EncIdle == TERM = "" /\ eargs = <<>> /\ eret = <<>> /\ prevmux = ""

(***************************************************************************)
(* Bounds.                                                                 *)
(***************************************************************************)
\* every axis of an input array has a size in 1..MaxDim
MaxDim == 4

(***************************************************************************)
(* Arrays.                                                                 *)
(***************************************************************************)
\* a value v of the program, in quarters
Fix(v) == 4 * v

\* trunc(q / 4) for q >= 0: what astype(np.uint8) makes of a float in [0, 256)
TruncFix(q) == q \div 4

Indices(shape) ==
    CASE Len(shape) = 2 ->
           {<<i, j>> : i \in 0..(shape[1] - 1), j \in 0..(shape[2] - 1)}
      [] Len(shape) = 3 ->
           {<<i, j, k>> : i \in 0..(shape[1] - 1), j \in 0..(shape[2] - 1),
                          k \in 0..(shape[3] - 1)}
      [] Len(shape) = 4 ->
           {<<i, j, k, l>> : i \in 0..(shape[1] - 1), j \in 0..(shape[2] - 1),
                             k \in 0..(shape[3] - 1), l \in 0..(shape[4] - 1)}

\* the row-major position of an index tuple
RECURSIVE Linear(_, _, _)
Linear(shape, idx, n) ==
    IF n = 0 THEN 0 ELSE Linear(shape, idx, n - 1) * shape[n] + idx[n]

\* x.transpose(perm): axis i of the result is axis perm[i] of x (1-based here)
Transpose(a, perm) ==
    LET n == Len(a.shape)
        sh == [i \in 1..n |-> a.shape[perm[i]]]
        inv == [j \in 1..n |-> CHOOSE i \in 1..n : perm[i] = j]
    IN  [shape |-> sh,
         data |-> [idx \in Indices(sh) |-> a.data[[j \in 1..n |-> idx[inv[j]]]]]]

\* x[None]: a new leading axis of size 1
NewAxisFront(a) ==
    LET sh == <<1>> \o a.shape
    IN  [shape |-> sh, data |-> [idx \in Indices(sh) |-> a.data[Tail(idx)]]]

\* x[..., None]: a new trailing axis of size 1
NewAxisBack(a) ==
    LET sh == Append(a.shape, 1)
    IN  [shape |-> sh,
         data |-> [idx \in Indices(sh) |-> a.data[SubSeq(idx, 1, Len(idx) - 1)]]]

\* x.min(), x.max()
Min(a) == CHOOSE v \in {a.data[i] : i \in DOMAIN a.data} :
              \A j \in DOMAIN a.data : v <= a.data[j]
Max(a) == CHOOSE v \in {a.data[i] : i \in DOMAIN a.data} :
              \A j \in DOMAIN a.data : v >= a.data[j]

(***************************************************************************)
(* format_img: the layout step, tensorcat.py:47-68.                        *)
(***************************************************************************)
\* faulty variant: a fourth (alpha) channel counts as channel evidence
IsChannelCountRGBA(n) == n \in {1, 3, 4}

\* shape[i] in [1, 3]
IsChannelCount(n) == n \in {1, 3}

\* faulty variant: the channel-last test is tried before the channel-first test
LayoutOfLastFirst(shape) ==
    LET ndim == Len(shape)
    IN  IF ndim = 2 THEN "HW"
        ELSE IF ndim = 3 THEN
            IF IsChannelCount(shape[ndim]) THEN "HWC"
            ELSE IF IsChannelCount(shape[1]) THEN "CHW"
            ELSE "BHW"
        ELSE IF ndim = 4 THEN
            IF IsChannelCount(shape[ndim]) THEN "BHWC"
            ELSE IF IsChannelCount(shape[2]) THEN "BCHW"
            ELSE "ValueError"
        ELSE ""

LayoutOf(shape) ==
    LET ndim == Len(shape)
    IN  IF ndim = 2 THEN "HW"
        ELSE IF ndim = 3 THEN
            IF IsChannelCount(shape[1]) THEN "CHW"
            ELSE IF IsChannelCount(shape[ndim]) THEN "HWC"
            ELSE "BHW"
        ELSE IF ndim = 4 THEN
            IF IsChannelCount(shape[2]) THEN "BCHW"
            ELSE IF IsChannelCount(shape[ndim]) THEN "BHWC"
            ELSE "ValueError"
        ELSE ""

ApplyLayout(a, layout) ==
    CASE layout = "HW"   -> NewAxisBack(NewAxisFront(a))
      [] layout = "CHW"  -> NewAxisFront(Transpose(a, <<2, 3, 1>>))
      [] layout = "HWC"  -> NewAxisFront(a)
      [] layout = "BHW"  -> NewAxisBack(a)
      [] layout = "BCHW" -> Transpose(a, <<1, 3, 4, 2>>)
      [] OTHER           -> a

(***************************************************************************)
(* format_img: the range step, tensorcat.py:70-81.                         *)
(***************************************************************************)
\* faulty variant: the upper limit of the 8-bit range is exclusive
RangeOfExclusive(lo, hi) ==
    IF lo >= 0 /\ hi <= Fix(1) THEN "0-1"
    ELSE IF lo >= 0 /\ hi < Fix(255) THEN "0-255"
    ELSE "Out of Range"

RangeOf(lo, hi) ==
    IF lo >= 0 /\ hi <= Fix(1) THEN "0-1"
    ELSE IF lo >= 0 /\ hi <= Fix(255) THEN "0-255"
    ELSE "Out of Range"

\* (x * 255).astype(np.uint8), x in [0, 1]
Scale01(q) == (q * 255) \div 4

\* ((x - min) / (max - min) * 255).astype(np.uint8), max > min
Rescale(q, lo, hi) == ((q - lo) * 255) \div (hi - lo)

\* What the cast of a NaN to uint8 can give: C leaves the conversion
\* undefined; the scalar conversions give 0, saturating vector ones 255.
NaNCast == {0, 255}

(***************************************************************************)
(* format_img: force RGB, tensorcat.py:83-87.                              *)
(***************************************************************************)
LastAxis(a) == a.shape[Len(a.shape)]

\* faulty variant: a single channel is left as it is
BroadcastNone(a) == a

\* np.broadcast_to(x, x.shape[:-1] + (3,))
BroadcastRGB(a) ==
    LET sh == [a.shape EXCEPT ![4] = 3]
    IN  [shape |-> sh,
         data |-> [idx \in Indices(sh) |-> a.data[[idx EXCEPT ![4] = 0]]]]

\* x[..., :3]
DropAlpha(a) ==
    LET sh == [a.shape EXCEPT ![4] = 3]
    IN  [shape |-> sh, data |-> [idx \in Indices(sh) |-> a.data[idx]]]

(***************************************************************************)
(* The inputs of format_img.                                               *)
(***************************************************************************)
Shapes ==
    {<<a, b>> : a \in 1..MaxDim, b \in 1..MaxDim}
    \cup {<<a, b, c>> : a \in 1..MaxDim, b \in 1..MaxDim, c \in 1..MaxDim}
    \cup {<<a, b, c, d>> : a \in 1..MaxDim, b \in 1..MaxDim, c \in 1..MaxDim,
                           d \in 1..MaxDim}

\* The element values of an input, in quarters, repeated along the row-major
\* order: zeros, the constants 300 and -5, integers {0,1}, floats in [0,1],
\* integers in 0..255, floats in [0,255], and values out of range.
Palettes ==
    { <<0>>, <<1200>>, <<-20>>,
      <<0, 4>>,
      <<0, 1, 2, 4, 3>>,
      <<0, 1020, 28, 512, 40>>,
      <<8, 800, 1020>>,
      <<2, 401, 7>>,
      <<-4, 0, 8>>,
      <<400, 1200, 600, 1000, 800>>,
      <<-2, 6, 1>> }

MakeArray(shape, pal) ==
    [shape |-> shape,
     data |-> [idx \in Indices(shape) |->
                  pal[(Linear(shape, idx, Len(shape)) % Len(pal)) + 1]]]

Inputs == {MakeArray(s, p) : s \in Shapes, p \in Palettes}

None == [shape |-> <<>>, data |-> <<>>]

(***************************************************************************)
(* format_img as a process.                                                *)
(***************************************************************************)
FormatInit ==
    /\ arg \in Inputs
    /\ x = arg
    /\ pc = "shape"
    /\ format_guess = ""
    /\ range_guess = ""
    /\ xmin = 0
    /\ xmax = 0
    /\ divzero = FALSE
    /\ alpha = FALSE
    /\ calls = 1
    /\ first = None
    /\ GridIdle /\ TileIdle /\ EncIdle

\* tensorcat.py:47-66, a layout was found
InferShape ==
    /\ pc = "shape"
    /\ LayoutOf(x.shape) # "ValueError"
    /\ format_guess' = LayoutOf(x.shape)
    /\ x' = ApplyLayout(x, LayoutOf(x.shape))
    /\ pc' = "range"
    /\ UNCHANGED <<arg, range_guess, xmin, xmax, divzero, alpha, calls, first>>
    /\ UNCHANGED <<gvars, tvars, evars>>

\* tensorcat.py:67-68
RaiseShape ==
    /\ pc = "shape"
    /\ LayoutOf(x.shape) = "ValueError"
    /\ pc' = "raised"
    /\ UNCHANGED <<arg, x, format_guess, range_guess, xmin, xmax, divzero, alpha,
                   calls, first>>
    /\ UNCHANGED <<gvars, tvars, evars>>

\* tensorcat.py:70-81
InferRange ==
    /\ pc = "range"
    /\ LET lo == Min(x)
           hi == Max(x)
           r == RangeOf(lo, hi)
       IN  /\ xmin' = lo
           /\ xmax' = hi
           /\ range_guess' = r
           /\ IF r = "0-1" THEN
                  /\ x' = [shape |-> x.shape,
                           data |-> [i \in DOMAIN x.data |-> Scale01(x.data[i])]]
                  /\ divzero' = divzero
              ELSE IF r = "0-255" THEN
                  /\ x' = [shape |-> x.shape,
                           data |-> [i \in DOMAIN x.data |-> TruncFix(x.data[i])]]
                  /\ divzero' = divzero
              ELSE IF hi # lo THEN
                  /\ x' = [shape |-> x.shape,
                           data |-> [i \in DOMAIN x.data |->
                                        Rescale(x.data[i], lo, hi)]]
                  /\ divzero' = divzero
              ELSE
                  \* 0 / 0: every element is NaN, and the cast is undefined
                  /\ \E v \in NaNCast :
                         x' = [shape |-> x.shape,
                               data |-> [i \in DOMAIN x.data |-> v]]
                  /\ divzero' = TRUE
    /\ pc' = "rgb"
    /\ UNCHANGED <<arg, format_guess, alpha, calls, first>>
    /\ UNCHANGED <<gvars, tvars, evars>>

\* tensorcat.py:83-93
ForceRGB ==
    /\ pc = "rgb"
    /\ IF LastAxis(x) = 1 THEN x' = BroadcastRGB(x) /\ alpha' = alpha
       ELSE IF LastAxis(x) = 4 THEN x' = DropAlpha(x) /\ alpha' = TRUE
       ELSE x' = x /\ alpha' = alpha
    /\ pc' = "done"
    /\ UNCHANGED <<arg, format_guess, range_guess, xmin, xmax, divzero, calls, first>>
    /\ UNCHANGED <<gvars, tvars, evars>>

\* the caller passes the returned array to format_img again
FormatAgain ==
    /\ pc = "done"
    /\ calls = 1
    /\ calls' = 2
    /\ first' = x
    /\ arg' = [shape |-> x.shape, data |-> [i \in DOMAIN x.data |-> Fix(x.data[i])]]
    /\ x' = arg'
    /\ pc' = "shape"
    /\ format_guess' = ""
    /\ range_guess' = ""
    /\ UNCHANGED <<xmin, xmax, divzero, alpha>>
    /\ UNCHANGED <<gvars, tvars, evars>>

FormatNext == InferShape \/ RaiseShape \/ InferRange \/ ForceRGB \/ FormatAgain

FormatSpec == FormatInit /\ [][FormatNext]_vars

(***************************************************************************)
(* Claims about format_img.                                                *)
(***************************************************************************)
AllZero(a) == \A i \in DOMAIN a.data : a.data[i] = 0

\* a [B,H,W,3] array of integers 0..255 (in quarters)
IsCanonical(a) ==
    /\ Len(a.shape) = 4
    /\ a.shape[4] = 3
    /\ \A i \in DOMAIN a.data : a.data[i] \in {Fix(v) : v \in 0..255}

\* the uint8 array u has the shape and the element values of the input a
SameAs(u, a) ==
    /\ u.shape = a.shape
    /\ DOMAIN u.data = DOMAIN a.data
    /\ \A i \in DOMAIN a.data : Fix(u.data[i]) = a.data[i]

\* C1: whenever format_img returns, the result has 4 axes [B,H,W,C] with
\* B >= 1 and C = 3, one element per index, each an integer in 0..255.
C1_CanonicalResult ==
    pc = "done" =>
        /\ Len(x.shape) = 4
        /\ x.shape[1] >= 1
        /\ x.shape[4] = 3
        /\ DOMAIN x.data = Indices(x.shape)
        /\ \A i \in DOMAIN x.data : x.data[i] \in 0..255

C1_Witness ==
    /\ pc = "done"
    /\ calls = 1
    /\ format_guess = "BHW"
    /\ range_guess = "Out of Range"
    /\ ~divzero

\* C2: the layout is an ordered first-match table on the input shape, and the
\* layout-normalised array is the input with its axes moved as the table says;
\* a rank-4 shape with neither axis 1 nor the last axis in {1,3} raises and
\* returns nothing; a 3x2x2 input is CHW and becomes [1,2,2,3].
C2_LayoutTable ==
    LET s == arg.shape
        n == Len(s)
        d == arg.data
    IN  /\ (pc = "range" /\ n = 2) =>
              /\ format_guess = "HW"
              /\ x.shape = <<1, s[1], s[2], 1>>
              /\ \A i \in DOMAIN d : x.data[<<0, i[1], i[2], 0>>] = d[i]
        /\ (pc = "range" /\ n = 3 /\ s[1] \in {1, 3}) =>
              /\ format_guess = "CHW"
              /\ x.shape = <<1, s[2], s[3], s[1]>>
              /\ \A i \in DOMAIN d : x.data[<<0, i[2], i[3], i[1]>>] = d[i]
        /\ (pc = "range" /\ n = 3 /\ s[1] \notin {1, 3} /\ s[3] \in {1, 3}) =>
              /\ format_guess = "HWC"
              /\ x.shape = <<1, s[1], s[2], s[3]>>
              /\ \A i \in DOMAIN d : x.data[<<0, i[1], i[2], i[3]>>] = d[i]
        /\ (pc = "range" /\ n = 3 /\ s[1] \notin {1, 3} /\ s[3] \notin {1, 3}) =>
              /\ format_guess = "BHW"
              /\ x.shape = <<s[1], s[2], s[3], 1>>
              /\ \A i \in DOMAIN d : x.data[<<i[1], i[2], i[3], 0>>] = d[i]
        /\ (pc = "range" /\ n = 4 /\ s[2] \in {1, 3}) =>
              /\ format_guess = "BCHW"
              /\ x.shape = <<s[1], s[3], s[4], s[2]>>
              /\ \A i \in DOMAIN d : x.data[<<i[1], i[3], i[4], i[2]>>] = d[i]
        /\ (pc = "range" /\ n = 4 /\ s[2] \notin {1, 3}) =>
              /\ format_guess = "BHWC"
              /\ s[4] \in {1, 3}
              /\ x = arg
        /\ (n = 4 /\ s[2] \notin {1, 3} /\ s[4] \notin {1, 3}) =>
              /\ pc \in {"shape", "raised"}
              /\ x = arg
        /\ pc = "raised" => (n = 4 /\ s[2] \notin {1, 3} /\ s[4] \notin {1, 3})
        /\ pc = "range" => DOMAIN x.data = Indices(x.shape)
        /\ (pc = "range" /\ s = <<3, 2, 2>>) =>
              (format_guess = "CHW" /\ x.shape = <<1, 2, 2, 3>>)

\* a rank-3 input whose first and last axes are both channel counts: CHW wins
C2_Witness ==
    /\ pc = "range"
    /\ arg.shape = <<3, 2, 3>>
    /\ format_guess = "CHW"
    /\ \E i, j \in DOMAIN arg.data : arg.data[i] # arg.data[j]

\* C3 (as claimed): in the out-of-range branch with max = min the rescale does
\* not divide by zero and the result is all zero; an all-zero input gives an
\* all-zero result without error.
C3_NoDivisionByZero ==
    /\ (pc = "done" /\ range_guess = "Out of Range" /\ xmax = xmin) =>
           (~divzero /\ AllZero(x))
    /\ (pc = "done" /\ AllZero(arg)) => (~divzero /\ AllZero(x))

\* C4 (as claimed): a canonical input is returned unchanged, and a second
\* format_img returns what the first one returned.
C4_Idempotent ==
    /\ (pc = "done" /\ IsCanonical(arg)) => SameAs(x, arg)
    /\ (pc = "done" /\ calls = 2) => x = first

\* the cases in which C4 holds: H is neither 1 nor 3, and the values are all
\* zero or reach above 1
KeepsLayoutAndRange(a) ==
    /\ a.shape[2] \notin {1, 3}
    /\ (AllZero(a) \/ \E i \in DOMAIN a.data : a.data[i] > Fix(1))

\* C4 (amended): a canonical input whose H is neither 1 nor 3 and whose values
\* are all zero or include one above 1 is returned unchanged in shape and in
\* every element; so a second format_img returns what the first returned
\* whenever the first result is such an array.
C4_IdempotentAmended ==
    /\ (pc = "done" /\ IsCanonical(arg) /\ KeepsLayoutAndRange(arg)) =>
           SameAs(x, arg)
    /\ (pc = "done" /\ calls = 2 /\ KeepsLayoutAndRange(arg)) => x = first

C4_Witness ==
    /\ pc = "done"
    /\ calls = 2
    /\ KeepsLayoutAndRange(arg)
    /\ x.shape[1] > 1
    /\ \E i, j \in DOMAIN x.data : x.data[i] # x.data[j]

\* C5 (as claimed): with lo and hi the global min and max of the
\* layout-normalised array, first match wins: lo >= 0 and hi <= 1 gives
\* trunc(v*255); lo >= 0 and hi <= 255 gives trunc(v); otherwise
\* trunc((v-lo)/(hi-lo)*255), min mapping to 0 and max to 255.
C5_RangeTable ==
    pc = "rgb" =>
        LET a == ApplyLayout(arg, format_guess)
            lo == Min(a)
            hi == Max(a)
        IN  /\ x.shape = a.shape
            /\ IF lo >= 0 /\ hi <= 4 THEN
                   /\ range_guess = "0-1"
                   /\ \A i \in DOMAIN a.data : x.data[i] = (a.data[i] * 255) \div 4
               ELSE IF lo >= 0 /\ hi <= 1020 THEN
                   /\ range_guess = "0-255"
                   /\ \A i \in DOMAIN a.data : x.data[i] = a.data[i] \div 4
               ELSE
                   /\ range_guess = "Out of Range"
                   /\ \A i \in DOMAIN a.data :
                          /\ a.data[i] = lo => x.data[i] = 0
                          /\ a.data[i] = hi => x.data[i] = 255
                          /\ hi # lo =>
                                x.data[i] = ((a.data[i] - lo) * 255) \div (hi - lo)

\* C10: after the layout step the last axis has size 1 or 3, the alpha-drop of
\* line 87 never runs, a (H,W,4) input with H not in {1,3} is a BHW batch of
\* H images, and a (B,H,W,4) input with H not in {1,3} raises.
C10_NoAlpha ==
    LET s == arg.shape
        n == Len(s)
    IN  /\ pc \in {"range", "rgb"} => LastAxis(x) \in {1, 3}
        /\ ~alpha
        /\ (n = 3 /\ s[3] = 4 /\ s[1] \notin {1, 3} /\ pc = "done") =>
               (format_guess = "BHW" /\ x.shape = <<s[1], s[2], 4, 3>>)
        /\ (n = 4 /\ s[4] = 4 /\ s[2] \notin {1, 3}) => pc \in {"shape", "raised"}

C10_Witness ==
    /\ pc = "done"
    /\ arg.shape = <<2, 2, 4>>
    /\ format_guess = "BHW"
    /\ x.shape = <<2, 2, 4, 3>>

(***************************************************************************)
(* Binary64 arithmetic, as far as get_grid_size uses it (tensorcat.py:98-  *)
(* 103): int / int, float * int, np.sqrt and np.ceil.  Every operation is  *)
(* the exact result rounded to nearest, ties to even, on 53 bits.  A big   *)
(* natural number is the little-endian sequence of its digits in base      *)
(* 2^15, without leading zeros (<<>> is 0); a positive double is a record  *)
(* [m, e] of value m * 2^e with 2^52 <= m < 2^53.                          *)
(***************************************************************************)
Base == 2^15

\* the bits of a binary64 significand
MantBits == 53

RECURSIVE BigFromInt(_)
BigFromInt(n) == IF n = 0 THEN <<>> ELSE <<n % Base>> \o BigFromInt(n \div Base)

RECURSIVE BigToInt(_)
BigToInt(a) == IF a = <<>> THEN 0 ELSE a[1] + Base * BigToInt(Tail(a))

\* a with its leading zero digits removed
RECURSIVE BigNorm(_)
BigNorm(a) ==
    IF a = <<>> THEN <<>>
    ELSE IF a[Len(a)] = 0 THEN BigNorm(SubSeq(a, 1, Len(a) - 1))
    ELSE a

\* a * k + carry, for 0 <= k <= Base
RECURSIVE BigMulSmall(_, _, _)
BigMulSmall(a, k, carry) ==
    IF a = <<>> THEN BigFromInt(carry)
    ELSE LET t == a[1] * k + carry
         IN  <<t % Base>> \o BigMulSmall(Tail(a), k, t \div Base)

\* a * 2^n
RECURSIVE BigShl(_, _)
BigShl(a, n) ==
    IF a = <<>> \/ n = 0 THEN a
    ELSE IF n >= 15 THEN <<0>> \o BigShl(a, n - 15)
    ELSE BigMulSmall(a, 2^n, 0)

\* the digits i, i-1, ..., 1 of a divided by k with r carried in: [q, r]
RECURSIVE BigDivFrom(_, _, _, _, _)
BigDivFrom(a, i, k, r, q) ==
    IF i = 0 THEN [q |-> BigNorm(q), r |-> r]
    ELSE LET cur == r * Base + a[i]
         IN  BigDivFrom(a, i - 1, k, cur % k, <<cur \div k>> \o q)

\* floor(a / k) and a mod k, for 1 <= k <= Base
BigDivSmall(a, k) == BigDivFrom(a, Len(a), k, 0, <<>>)

\* floor(a / 2^n)
RECURSIVE BigShr(_, _)
BigShr(a, n) ==
    IF a = <<>> \/ n = 0 THEN a
    ELSE IF n >= 15 THEN BigShr(Tail(a), n - 15)
    ELSE BigDivSmall(a, 2^n).q

RECURSIVE BigAddCarry(_, _, _)
BigAddCarry(a, b, c) ==
    IF a = <<>> /\ b = <<>> THEN BigFromInt(c)
    ELSE LET da == IF a = <<>> THEN 0 ELSE a[1]
             db == IF b = <<>> THEN 0 ELSE b[1]
             t == da + db + c
         IN  <<t % Base>> \o BigAddCarry(IF a = <<>> THEN a ELSE Tail(a),
                                         IF b = <<>> THEN b ELSE Tail(b),
                                         t \div Base)

BigAdd(a, b) == BigAddCarry(a, b, 0)

RECURSIVE BigMul(_, _)
BigMul(a, b) ==
    IF a = <<>> \/ b = <<>> THEN <<>>
    ELSE LET rest == BigMul(Tail(a), b)
         IN  BigAdd(BigMulSmall(b, a[1], 0),
                    IF rest = <<>> THEN <<>> ELSE <<0>> \o rest)

\* a <= b, comparing from digit i down
RECURSIVE BigLeqFrom(_, _, _)
BigLeqFrom(a, b, i) ==
    IF i = 0 THEN TRUE
    ELSE IF a[i] # b[i] THEN a[i] < b[i]
    ELSE BigLeqFrom(a, b, i - 1)

BigLeq(a, b) ==
    IF Len(a) # Len(b) THEN Len(a) < Len(b) ELSE BigLeqFrom(a, b, Len(a))

RECURSIVE IntBitLen(_)
IntBitLen(n) == IF n = 0 THEN 0 ELSE 1 + IntBitLen(n \div 2)

\* the number of bits of a
BigBitLen(a) == IF a = <<>> THEN 0 ELSE 15 * (Len(a) - 1) + IntBitLen(a[Len(a)])

BigOdd(a) == a # <<>> /\ a[1] % 2 = 1

\* the one element of a singleton: Only({F(u) : u \in {e}}) is F(e) with e
\* evaluated once
Only(S) == CHOOSE u \in S : TRUE

\* The double nearest to (n + s) * 2^e, ties to even, where n is a big number
\* of more than MantBits bits and s is a fraction in [0,1) that is nonzero
\* exactly when sticky.
RoundNearestEven(n, sticky, e) ==
    LET drop == BigBitLen(n) - MantBits
    IN  Only({
            LET half == BigOdd(low)
                \* a nonzero bit below the half bit
                below == sticky \/ BigShl(low, drop - 1) # n
                keep == BigShr(low, 1)
                up == half /\ (below \/ BigOdd(keep))
            IN  Only({ IF BigBitLen(m) > MantBits
                       THEN [m |-> BigShr(m, 1), e |-> e + drop + 1]
                       ELSE [m |-> m, e |-> e + drop]
                       : m \in {IF up THEN BigAdd(keep, <<1>>) ELSE keep} })
            : low \in {BigShr(n, drop - 1)} })

\* b / w for Python ints b, w >= 1 (correctly rounded true division)
FDivInt(b, w) ==
    Only({ RoundNearestEven(qr.q, qr.r # 0, 0 - (4 * 15 + IntBitLen(w)))
           : qr \in {BigDivSmall(BigShl(BigFromInt(b), 4 * 15 + IntBitLen(w)), w)} })

\* f * h for a double f and a Python int h >= 1
FMulInt(f, h) ==
    Only({ RoundNearestEven(n, FALSE, f.e - 1) : n \in {BigMulSmall(f.m, 2 * h, 0)} })

\* r with bit i set if the square stays within n
ISqrtBit(n, r, i) ==
    Only({ IF BigLeq(BigMul(t, t), n) THEN t ELSE r
           : t \in {BigAdd(r, BigShl(<<1>>, i))} })

\* the largest root r' >= r with r' * r' <= n that differs from r in the bits
\* hi down to lo only; the bits are tried from hi down, in halves
RECURSIVE ISqrtBits(_, _, _, _)
ISqrtBits(n, r, hi, lo) ==
    IF hi = lo THEN ISqrtBit(n, r, hi)
    ELSE Only({ ISqrtBits(n, upper, ((hi + lo + 1) \div 2) - 1, lo)
                : upper \in {ISqrtBits(n, r, hi, (hi + lo + 1) \div 2)} })

\* np.sqrt(f)
FSqrt(f) ==
    LET j == IF (f.e - (MantBits + 2)) % 2 = 0 THEN MantBits + 2 ELSE MantBits + 3
    IN  Only({ Only({ RoundNearestEven(r, BigMul(r, r) # n, (f.e - j) \div 2)
                      : r \in {ISqrtBits(n, <<>>, MantBits + 2, 0)} })
               : n \in {BigShl(f.m, j)} })

\* int(np.ceil(f)) for a double f below 2^30
FCeil(f) ==
    IF f.e >= 0 THEN BigToInt(BigShl(f.m, f.e))
    ELSE IF 0 - f.e >= BigBitLen(f.m) THEN 1
    ELSE Only({ BigToInt(i) + (IF BigShl(i, 0 - f.e) # f.m THEN 1 ELSE 0)
                : i \in {BigShr(f.m, 0 - f.e)} })

(***************************************************************************)
(* get_grid_size, tensorcat.py:96-105.                                     *)
(***************************************************************************)
\* int(np.ceil(b / n))
GridCeilDiv(b, n) == Only({ FCeil(q) : q \in {FDivInt(b, n)} })

\* int(np.ceil(np.sqrt(b / w * h)))
GridAutoCols(b, h, w) ==
    Only({ Only({ Only({ FCeil(s) : s \in {FSqrt(p)} })
                  : p \in {FMulInt(q, h)} })
           : q \in {FDivInt(b, w)} })

get_grid_size(b, h, w, nrow, ncol) ==
    IF nrow # 0 THEN <<nrow, GridCeilDiv(b, nrow)>>
    ELSE IF ncol # 0 THEN <<GridCeilDiv(b, ncol), ncol>>
    ELSE Only({ <<GridCeilDiv(b, c), c>> : c \in {GridAutoCols(b, h, w)} })

(***************************************************************************)
(* get_grid_size applied to every input within the bounds.                 *)
(***************************************************************************)
\* the batch size, the image height and width, and the hints, at most
MaxBatch == 25
MaxHeight == 27
MaxWidth == 3
MaxHint == 2

GridInit ==
    /\ gpc = "call"
    /\ gargs \in [b : 1..MaxBatch, h : 1..MaxHeight, w : 1..MaxWidth,
                  nrow : 0..MaxHint, ncol : 0..MaxHint]
    /\ gret = <<>>
    /\ FormatIdle /\ TileIdle /\ EncIdle

GridReturn ==
    /\ gret' = get_grid_size(gargs.b, gargs.h, gargs.w, gargs.nrow, gargs.ncol)
    /\ gpc' = "done"
    /\ UNCHANGED <<gargs, fvars, tvars, evars>>

\* tensorcat.py:97-98
GridRowsGiven == gpc = "call" /\ gargs.nrow # 0 /\ GridReturn

\* tensorcat.py:99-100
GridColsGiven == gpc = "call" /\ gargs.nrow = 0 /\ gargs.ncol # 0 /\ GridReturn

\* tensorcat.py:101-103
GridAuto == gpc = "call" /\ gargs.nrow = 0 /\ gargs.ncol = 0 /\ GridReturn

GridNext == GridRowsGiven \/ GridColsGiven \/ GridAuto

GridSpec == GridInit /\ [][GridNext]_vars

\* ceil(a / n) and ceil(sqrt(a / n)) of the rationals
CeilDiv(a, n) == (a + n - 1) \div n
CeilSqrtDiv(a, n) == CHOOSE c \in 1..a : c * c * n >= a /\ (c - 1) * (c - 1) * n < a

\* C6 (as claimed): rows >= 1, cols >= 1 and rows * cols >= batch; a given
\* nrow is kept and cols = ceil(batch / nrow); else a given ncol is kept and
\* rows = ceil(batch / ncol); else cols = ceil(sqrt(batch * h / w)) and
\* rows = ceil(batch / cols).
C6_GridSize ==
    gpc = "done" =>
        LET rows == gret[1]
            cols == gret[2]
        IN  /\ rows >= 1
            /\ cols >= 1
            /\ rows * cols >= gargs.b
            /\ IF gargs.nrow # 0 THEN
                   rows = gargs.nrow /\ cols = CeilDiv(gargs.b, gargs.nrow)
               ELSE IF gargs.ncol # 0 THEN
                   cols = gargs.ncol /\ rows = CeilDiv(gargs.b, gargs.ncol)
               ELSE
                   /\ cols = CeilSqrtDiv(gargs.b * gargs.h, gargs.w)
                   /\ rows = CeilDiv(gargs.b, cols)

(***************************************************************************)
(* tile_img, tensorcat.py:108-136.                                         *)
(***************************************************************************)
\* faulty variant: the cell starts at the seam, not after it
CellStartNoSeam(i, size, pad) == i * size

\* y0 = row * h + padding, x0 = col * w + padding (h and w the cell sizes)
CellStart(i, size, pad) == i * size + pad

\* np.full(shape, value, dtype=np.uint8)
Full(shape, value) == [shape |-> shape, data |-> [idx \in Indices(shape) |-> value]]

\* grid[y0:y1, x0:x1] = a[n]
Paste(g, y0, y1, x0, x1, a, n) ==
    [shape |-> g.shape,
     data |-> [idx \in DOMAIN g.data |->
                  IF /\ y0 <= idx[1] /\ idx[1] < y1
                     /\ x0 <= idx[2] /\ idx[2] < x1
                  THEN a.data[<<n, idx[1] - y0, idx[2] - x0, idx[3]>>]
                  ELSE g.data[idx]]]

\* the batch size, the image side, the hints and the padding, at most
TileMaxBatch == 5
TileMaxSide == 3
TileMaxHint == 3
TileMaxPad == 2

\* canonical batches: [b, h, w, 3] uint8, the pixels all different nearby
TileInputs ==
    {MakeArray(<<b, hh, ww, 3>>, <<0, 255, 17, 34, 51, 68, 85>>) :
        b \in 1..TileMaxBatch, hh \in 1..TileMaxSide, ww \in 1..TileMaxSide}

TileInit ==
    /\ tpc = "start"
    /\ tx \in TileInputs
    /\ tnrow \in 0..TileMaxHint
    /\ tncol \in 0..TileMaxHint
    /\ padding \in 0..TileMaxPad
    /\ pad_value \in {0, 255}
    /\ th = 0 /\ tw = 0 /\ grid = <<>> /\ tk = 0 /\ trow = 0 /\ tcol = 0
    /\ FormatIdle /\ GridIdle /\ EncIdle

\* tensorcat.py:111-120
TileStart ==
    /\ tpc = "start"
    /\ LET g == get_grid_size(tx.shape[1], tx.shape[2], tx.shape[3], tnrow, tncol)
           ch == tx.shape[2] + padding
           cw == tx.shape[3] + padding
       IN  /\ tnrow' = g[1]
           /\ tncol' = g[2]
           /\ th' = ch
           /\ tw' = cw
           /\ grid' = Full(<<ch * g[1] + padding, cw * g[2] + padding, tx.shape[4]>>,
                           pad_value)
    /\ tk' = 0 /\ trow' = 0 /\ tcol' = 0
    /\ tpc' = "loop"
    /\ UNCHANGED <<tx, padding, pad_value, fvars, gvars, evars>>

\* tensorcat.py:126-134, one image placed
TilePlace ==
    /\ tpc = "loop" /\ trow < tnrow /\ tcol < tncol
    /\ tk < tx.shape[1]
    /\ LET y0 == CellStart(trow, th, padding)
           y1 == y0 + th - padding
           x0 == CellStart(tcol, tw, padding)
           x1 == x0 + tw - padding
       IN  grid' = Paste(grid, y0, y1, x0, x1, tx, tk)
    /\ tk' = tk + 1
    /\ tcol' = tcol + 1
    /\ UNCHANGED <<tpc, tx, tnrow, tncol, padding, pad_value, th, tw, trow>>
    /\ UNCHANGED <<fvars, gvars, evars>>

\* tensorcat.py:123-124, break out of the row
TileBreak ==
    /\ tpc = "loop" /\ trow < tnrow /\ tcol < tncol
    /\ tk >= tx.shape[1]
    /\ trow' = trow + 1
    /\ tcol' = 0
    /\ UNCHANGED <<tpc, tx, tnrow, tncol, padding, pad_value, th, tw, grid, tk>>
    /\ UNCHANGED <<fvars, gvars, evars>>

\* tensorcat.py:121-122, the row is full
TileNextRow ==
    /\ tpc = "loop" /\ trow < tnrow /\ tcol = tncol
    /\ trow' = trow + 1
    /\ tcol' = 0
    /\ UNCHANGED <<tpc, tx, tnrow, tncol, padding, pad_value, th, tw, grid, tk>>
    /\ UNCHANGED <<fvars, gvars, evars>>

\* tensorcat.py:136
TileReturn ==
    /\ tpc = "loop" /\ trow = tnrow
    /\ tpc' = "done"
    /\ UNCHANGED <<tx, tnrow, tncol, padding, pad_value, th, tw, grid, tk, trow, tcol>>
    /\ UNCHANGED <<fvars, gvars, evars>>

TileNext == TileStart \/ TilePlace \/ TileBreak \/ TileNextRow \/ TileReturn

TileSpec == TileInit /\ [][TileNext]_vars

\* C7: the canvas is rows*(h+p)+p high and cols*(w+p)+p wide; image n fills
\* the h x w block whose corner is (r*(h+p)+p, c*(w+p)+p), r = n div cols,
\* c = n mod cols; all b images are placed; every other pixel is pad_value;
\* and the loop ends without error when rows*cols > b.
C7_Tiling ==
    tpc = "done" =>
        LET b == tx.shape[1]
            ih == tx.shape[2]
            iw == tx.shape[3]
            p == padding
            InBlock(idx, n) ==
                /\ idx[1] - ((n \div tncol) * (ih + p) + p) \in 0..(ih - 1)
                /\ idx[2] - ((n % tncol) * (iw + p) + p) \in 0..(iw - 1)
        IN  /\ tnrow * tncol >= b
            /\ tk = b
            /\ grid.shape = <<tnrow * (ih + p) + p, tncol * (iw + p) + p, 3>>
            /\ DOMAIN grid.data = Indices(grid.shape)
            /\ \A i \in DOMAIN tx.data :
                   grid.data[<<(i[1] \div tncol) * (ih + p) + p + i[2],
                               (i[1] % tncol) * (iw + p) + p + i[3],
                               i[4]>>] = tx.data[i]
            /\ \A idx \in DOMAIN grid.data :
                   (\A n \in 0..(b - 1) : ~InBlock(idx, n)) =>
                       grid.data[idx] = pad_value

\* three images on a grid with a free cell, seams of width 2
C7_Witness ==
    /\ tpc = "done"
    /\ tx.shape[1] = 3
    /\ tnrow * tncol > 3
    /\ tnrow > 1 /\ tncol > 1
    /\ padding = 2
    /\ pad_value = 255

(***************************************************************************)
(* img2str, iterm2.py:11-80.  A string is the sequence of its characters;  *)
(* ESC and BEL stand for the bytes 0x1b and 0x07; a byte string is a       *)
(* sequence of numbers 0..255.                                             *)
(***************************************************************************)
ESC == "ESC"
BEL == "BEL"
\* None, and a variable missing from the environment: one-element sequences
\* whose element is no character
NoneValue == <<"None">>
Unset == <<"unset">>

\* the printable ASCII characters, from code 32 on (GRAVE is code 96)
Ascii == <<
    " ", "!", "\"", "#", "$", "%", "&", "'", "(", ")", "*", "+", ",", "-",
    ".", "/", "0", "1", "2", "3", "4", "5", "6", "7", "8", "9", ":", ";",
    "<", "=", ">", "?", "@", "A", "B", "C", "D", "E", "F", "G", "H", "I",
    "J", "K", "L", "M", "N", "O", "P", "Q", "R", "S", "T", "U", "V", "W",
    "X", "Y", "Z", "[", "\\", "]", "^", "_", "GRAVE", "a", "b", "c", "d", "e",
    "f", "g", "h", "i", "j", "k", "l", "m", "n", "o", "p", "q", "r", "s",
    "t", "u", "v", "w", "x", "y", "z", "{", "|", "}", "~">>

\* the base64 alphabet
B64Alphabet == <<
    "A", "B", "C", "D", "E", "F", "G", "H", "I", "J", "K", "L", "M", "N",
    "O", "P", "Q", "R", "S", "T", "U", "V", "W", "X", "Y", "Z", "a", "b",
    "c", "d", "e", "f", "g", "h", "i", "j", "k", "l", "m", "n", "o", "p",
    "q", "r", "s", "t", "u", "v", "w", "x", "y", "z", "0", "1", "2", "3",
    "4", "5", "6", "7", "8", "9", "+", "/">>

\* str.encode() of an ASCII string
Encode(str) == [i \in 1..Len(str) |-> 31 + (CHOOSE c \in 1..Len(Ascii) : Ascii[c] = str[i])]

B64Char(n) == B64Alphabet[n + 1]

\* base64.b64encode(bytes).decode()
RECURSIVE B64Encode(_)
B64Encode(bytes) ==
    IF Len(bytes) = 0 THEN <<>>
    ELSE IF Len(bytes) = 1 THEN
        <<B64Char(bytes[1] \div 4), B64Char((bytes[1] % 4) * 16), "=", "=">>
    ELSE IF Len(bytes) = 2 THEN
        <<B64Char(bytes[1] \div 4),
          B64Char((bytes[1] % 4) * 16 + bytes[2] \div 16),
          B64Char((bytes[2] % 16) * 4), "=">>
    ELSE
        <<B64Char(bytes[1] \div 4),
          B64Char((bytes[1] % 4) * 16 + bytes[2] \div 16),
          B64Char((bytes[2] % 16) * 4 + bytes[3] \div 64),
          B64Char(bytes[3] % 64)>> \o B64Encode(SubSeq(bytes, 4, Len(bytes)))

\* str(n) for n >= 0
RECURSIVE IntStr(_)
IntStr(n) ==
    IF n < 10 THEN <<Ascii[17 + n]>>
    ELSE Append(IntStr(n \div 10), Ascii[17 + (n % 10)])

\* int(flag) of a bool
BoolInt(flag) == IF flag THEN 1 ELSE 0

\* the truth value of an optional string: None and "" are false
Truthy(str) == str # NoneValue /\ str # <<>>

\* str.startswith(prefix)
StartsWith(str, prefix) ==
    Len(str) >= Len(prefix) /\ SubSeq(str, 1, Len(prefix)) = prefix

\* os.environ.get(name, default) of one variable
EnvGet(value, default) == IF value = Unset THEN default ELSE value

\* faulty variant: only tmux is recognised
IsMuxTmuxOnly(term) == StartsWith(term, <<"t", "m", "u", "x">>)

\* TERM.startswith(("tmux", "screen")), iterm2.py:54
IsMux(term) ==
    \/ StartsWith(term, <<"t", "m", "u", "x">>)
    \/ StartsWith(term, <<"s", "c", "r", "e", "e", "n">>)

\* iterm2.py:46-47
ConvertRGB(img) ==
    IF img.mode \in {"RGBA", "P"} THEN [img EXCEPT !.mode = "RGB"] ELSE img

\* img.save(img_file, format="JPEG"); img_file.getvalue(): the codec is a
\* black box, and img.jpeg is what it gives for the picture
JpegSave(img) == img.jpeg

\* faulty variant: width and height are emitted in the other order
OptionalParamsSwapped(name, width, height) ==
    (IF Truthy(name)
     THEN <<";", "n", "a", "m", "e", "=">> \o B64Encode(Encode(name)) ELSE <<>>)
    \o (IF Truthy(height)
        THEN <<";", "h", "e", "i", "g", "h", "t", "=">> \o height ELSE <<>>)
    \o (IF Truthy(width)
        THEN <<";", "w", "i", "d", "t", "h", "=">> \o width ELSE <<>>)

\* iterm2.py:63-71
OptionalParams(name, width, height) ==
    (IF Truthy(name)
     THEN <<";", "n", "a", "m", "e", "=">> \o B64Encode(Encode(name)) ELSE <<>>)
    \o (IF Truthy(width)
        THEN <<";", "w", "i", "d", "t", "h", "=">> \o width ELSE <<>>)
    \o (IF Truthy(height)
        THEN <<";", "h", "e", "i", "g", "h", "t", "=">> \o height ELSE <<>>)

\* iterm2.py:44-80
img2str(img, inline, name, width, height, preserve_aspect_ratio, file_type, env) ==
    LET img_bytes == JpegSave(ConvertRGB(img))
        img_size == Len(img_bytes)
        img_b64 == B64Encode(img_bytes)
        mux == IsMux(EnvGet(env, <<>>))
        osc == IF mux THEN <<ESC, "P", "t", "m", "u", "x", ";", ESC, ESC, "]">>
               ELSE <<ESC, "]">>
        st == IF mux THEN <<BEL, ESC, "\\">> ELSE <<BEL>>
    IN  osc
        \o <<"1", "3", "3", "7", ";", "F", "i", "l", "e", "=", "i", "n", "l", "i", "n", "e", "=">>
        \o IntStr(BoolInt(inline))
        \o <<";", "s", "i", "z", "e", "=">> \o IntStr(img_size)
        \o OptionalParams(name, width, height)
        \o <<";", "p", "r", "e", "s", "e", "r", "v", "e", "A", "s", "p", "e", "c", "t", "R", "a", "t", "i", "o", "=">>
        \o IntStr(BoolInt(preserve_aspect_ratio))
        \o (IF Truthy(file_type)
            THEN <<";", "t", "y", "p", "e", "=">> \o file_type ELSE <<>>)
        \o <<":">> \o img_b64 \o st

(***************************************************************************)
(* Calls of img2str, with TERM changed between them.                       *)
(***************************************************************************)
Images ==
    { [mode |-> "RGB", jpeg |-> <<255, 216, 255, 224, 0, 16, 74, 70, 255, 217>>],
      [mode |-> "RGBA",
       jpeg |-> <<255, 216, 255, 219, 0, 67, 0, 8, 6, 255, 217>>],
      [mode |-> "P",
       jpeg |-> <<255, 216, 255, 192, 0, 11, 8, 0, 1, 63, 255, 217>>] }

Names == {<<>>, <<"a", ".", "p", "n", "g">>, <<"c", "a", "t">>}
Widths == {NoneValue, <<>>, <<"5", "0", "%">>}
Heights == {NoneValue, <<>>, <<"1", "0", "p", "x">>}
FileTypes == {NoneValue, <<>>, <<"j", "p", "e", "g">>}

Terms ==
    { Unset, <<"x", "t", "e", "r", "m">>, <<"t", "m", "u", "x", "-", "2", "5", "6", "c", "o", "l", "o", "r">>,
      <<"s", "c", "r", "e", "e", "n">>, <<"t", "m", "u">>, <<"x", "s", "c", "r", "e", "e", "n">> }

EncInit ==
    /\ TERM \in Terms
    /\ eargs \in [img : Images, inline : BOOLEAN, name : Names, width : Widths,
                  height : Heights, preserve_aspect_ratio : BOOLEAN,
                  file_type : FileTypes]
    /\ eret = NoneValue
    /\ prevmux = ""
    /\ FormatIdle /\ GridIdle /\ TileIdle

\* the framing of the call that returned eret, for the next call to look back on
LastFraming ==
    IF eret = NoneValue THEN prevmux
    ELSE IF eret[2] = "P" THEN "tmux" ELSE "plain"

\* the caller has printed the string (print_img), and the process changes its
\* environment
SetEnv ==
    /\ \E t \in Terms \ {TERM} : TERM' = t
    /\ eret' = NoneValue
    /\ prevmux' = LastFraming
    /\ UNCHANGED <<eargs, fvars, gvars, tvars>>

\* one call of img2str
Img2Str ==
    /\ eret' = img2str(eargs.img, eargs.inline, eargs.name, eargs.width,
                       eargs.height, eargs.preserve_aspect_ratio,
                       eargs.file_type, TERM)
    /\ prevmux' = LastFraming
    /\ UNCHANGED <<TERM, eargs, fvars, gvars, tvars>>

EncNext == SetEnv \/ Img2Str

EncSpec == EncInit /\ [][EncNext]_vars

(***************************************************************************)
(* Claims about img2str.  The returned string is taken apart again here,   *)
(* without the operators that built it.  While eret holds a string, TERM   *)
(* is the TERM its call read.                                              *)
(***************************************************************************)
Called == eret # NoneValue

\* TERM begins with "tmux" or "screen"
BeginsTmuxOrScreen(term) ==
    /\ term # Unset
    /\ \/ Len(term) >= 4 /\ term[1] = "t" /\ term[2] = "m" /\ term[3] = "u"
          /\ term[4] = "x"
       \/ Len(term) >= 6 /\ term[1] = "s" /\ term[2] = "c" /\ term[3] = "r"
          /\ term[4] = "e" /\ term[5] = "e" /\ term[6] = "n"

\* the first position of character c in str, 0 when there is none
RECURSIVE IndexFrom(_, _, _)
IndexFrom(str, c, i) ==
    IF i > Len(str) THEN 0
    ELSE IF str[i] = c THEN i
    ELSE IndexFrom(str, c, i + 1)

IndexOf(str, c) == IndexFrom(str, c, 1)

\* str.split(c)
RECURSIVE Split(_, _)
Split(str, c) ==
    LET i == IndexOf(str, c)
    IN  IF i = 0 THEN <<str>>
        ELSE <<SubSeq(str, 1, i - 1)>> \o Split(SubSeq(str, i + 1, Len(str)), c)

IsB64Char(c) == \E i \in 1..64 : B64Alphabet[i] = c

B64Value(c) == (CHOOSE i \in 1..64 : B64Alphabet[i] = c) - 1

\* the bytes a padded base64 string stands for
RECURSIVE B64Decode(_)
B64Decode(str) ==
    IF Len(str) < 4 THEN <<>>
    ELSE LET a == B64Value(str[1])
             b == B64Value(str[2])
             first3 ==
                 IF str[3] = "=" THEN <<a * 4 + b \div 16>>
                 ELSE IF str[4] = "="
                 THEN <<a * 4 + b \div 16,
                        (b % 16) * 16 + B64Value(str[3]) \div 4>>
                 ELSE <<a * 4 + b \div 16,
                        (b % 16) * 16 + B64Value(str[3]) \div 4,
                        (B64Value(str[3]) % 4) * 64 + B64Value(str[4])>>
         IN  first3 \o B64Decode(SubSeq(str, 5, Len(str)))

\* the number a decimal string stands for
RECURSIVE ParseInt(_)
ParseInt(str) ==
    IF Len(str) = 0 THEN 0
    ELSE 10 * ParseInt(SubSeq(str, 1, Len(str) - 1))
         + (CHOOSE d \in 0..9 : Ascii[17 + d] = str[Len(str)])

\* what follows the first ':' of the output
AfterColon(out) == SubSeq(out, IndexOf(out, ":") + 1, Len(out))

\* the length of the base64 text that str has from position i on
RECURSIVE B64RunLen(_, _)
B64RunLen(str, i) ==
    IF i > Len(str) THEN 0
    ELSE IF IsB64Char(str[i]) \/ str[i] = "=" THEN 1 + B64RunLen(str, i + 1)
    ELSE 0

\* the base64 text right after the ':'
Payload(out) ==
    LET tail == AfterColon(out)
    IN  SubSeq(tail, 1, B64RunLen(tail, 1))

\* everything after the payload
Terminator(out) ==
    LET tail == AfterColon(out)
    IN  SubSeq(tail, B64RunLen(tail, 1) + 1, Len(tail))

TmuxOpening == <<ESC, "P", "t", "m", "u", "x", ";", ESC, ESC, "]">>
PlainOpening == <<ESC, "]">>

Opens(opening) ==
    Len(eret) >= Len(opening) /\ SubSeq(eret, 1, Len(opening)) = opening

\* C8 (as claimed): the framing follows the TERM read at the call; under tmux
\* or screen the output opens ESC P t m u x ; ESC ESC ] and the payload is
\* followed by exactly ESC \, otherwise it opens ESC ] and the payload is
\* followed by exactly BEL.
C8_Framing ==
    Called =>
        /\ B64Decode(Payload(eret)) = eargs.img.jpeg
        /\ IF BeginsTmuxOrScreen(TERM)
           THEN Opens(TmuxOpening) /\ Terminator(eret) = <<ESC, "\\">>
           ELSE Opens(PlainOpening) /\ Terminator(eret) = <<BEL>>

\* C8 (amended): as C8, but under tmux or screen the payload is followed by
\* exactly BEL ESC \ (the BEL that ends the inner sequence, then ESC \).
C8_FramingAmended ==
    Called =>
        /\ B64Decode(Payload(eret)) = eargs.img.jpeg
        /\ IF BeginsTmuxOrScreen(TERM)
           THEN Opens(TmuxOpening) /\ Terminator(eret) = <<BEL, ESC, "\\">>
           ELSE Opens(PlainOpening) /\ Terminator(eret) = <<BEL>>

\* a call under a plain TERM right after a call that used the tmux framing
C8_Witness ==
    /\ Called
    /\ prevmux = "tmux"
    /\ ~BeginsTmuxOrScreen(TERM)
    /\ Opens(PlainOpening)
    /\ Terminator(eret) = <<BEL>>

\* the parameter list: between the opening and the first ':'
Params ==
    SubSeq(eret,
           (IF Opens(TmuxOpening) THEN Len(TmuxOpening) ELSE Len(PlainOpening)) + 1,
           IndexOf(eret, ":") - 1)

Fields == Split(Params, ";")

KeyOf(field) == SubSeq(field, 1, IndexOf(field, "=") - 1)
ValueOf(field) == SubSeq(field, IndexOf(field, "=") + 1, Len(field))

\* the keys of the fields after "1337"
Keys(fields) == [i \in 1..(Len(fields) - 1) |-> KeyOf(fields[i + 1])]

NonEmpty(str) == str # NoneValue /\ str # <<>>

\* the field with the given key; there is exactly one where this is used
FieldOf(fields, key) ==
    fields[CHOOSE i \in 1..Len(fields) : KeyOf(fields[i]) = key]

KEY_NAME == <<"n", "a", "m", "e">>
KEY_WIDTH == <<"w", "i", "d", "t", "h">>
KEY_HEIGHT == <<"h", "e", "i", "g", "h", "t">>
KEY_TYPE == <<"t", "y", "p", "e">>
KEY_PRESERVE ==
    <<"p", "r", "e", "s", "e", "r", "v", "e", "A", "s", "p", "e", "c", "t", "R", "a", "t", "i", "o">>

ExpectedKeys ==
    <<<<"F", "i", "l", "e">>, <<"s", "i", "z", "e">>>>
    \o (IF NonEmpty(eargs.name) THEN <<KEY_NAME>> ELSE <<>>)
    \o (IF NonEmpty(eargs.width) THEN <<KEY_WIDTH>> ELSE <<>>)
    \o (IF NonEmpty(eargs.height) THEN <<KEY_HEIGHT>> ELSE <<>>)
    \o <<KEY_PRESERVE>>
    \o (IF NonEmpty(eargs.file_type) THEN <<KEY_TYPE>> ELSE <<>>)

\* C9: the parameter list is 1337;File=inline=<0|1>, ;size=<length of the JPEG
\* bytes>, then name (base64), width and height (verbatim) each if and only if
\* non-empty, then always preserveAspectRatio=<0|1>, then type if and only if
\* non-empty, in this order, no key twice, no key for an empty or None field.
C9_ParameterList ==
    Called =>
        LET fields == Fields
        IN  /\ fields[1] = <<"1", "3", "3", "7">>
            /\ Keys(fields) = ExpectedKeys
            /\ fields[2] = <<"F", "i", "l", "e", "=", "i", "n", "l", "i", "n", "e", "=">>
                           \o (IF eargs.inline THEN <<"1">> ELSE <<"0">>)
            /\ ParseInt(ValueOf(fields[3])) = Len(eargs.img.jpeg)
            /\ ValueOf(fields[3])[1] # "0"
            /\ NonEmpty(eargs.name) =>
                   B64Decode(ValueOf(FieldOf(fields, KEY_NAME))) = Encode(eargs.name)
            /\ NonEmpty(eargs.width) =>
                   ValueOf(FieldOf(fields, KEY_WIDTH)) = eargs.width
            /\ NonEmpty(eargs.height) =>
                   ValueOf(FieldOf(fields, KEY_HEIGHT)) = eargs.height
            /\ ValueOf(FieldOf(fields, KEY_PRESERVE)) =
                   (IF eargs.preserve_aspect_ratio THEN <<"1">> ELSE <<"0">>)
            /\ NonEmpty(eargs.file_type) =>
                   ValueOf(FieldOf(fields, KEY_TYPE)) = eargs.file_type

\* a call with name, width, height and file_type all given
C9_Witness ==
    /\ Called
    /\ NonEmpty(eargs.name) /\ NonEmpty(eargs.width)
    /\ NonEmpty(eargs.height) /\ NonEmpty(eargs.file_type)
    /\ Len(Fields) = 8

====
